---- MODULE Spec2Model ----
(***************************************************************************)
(* Model of the spell layer of the roguelike (src/src/magic.py): cast_heal, *)
(* cast_lightening, cast_fireball and cast_confusion acting on the          *)
(* creatures of one dungeon floor.  The map queries (tiles_in_line,         *)
(* tiles_in_radius, creature_at_coords), the creature component (heal,      *)
(* take_damage, move), the tile-selection menu and the AiConfuse wrapper    *)
(* are imported by magic.py from modules that are not part of the source    *)
(* tree at hand; they are modelled from the design document.                *)
(* With them: move_one_tile of src/source/actions.py and the audio part of  *)
(* ObjAssets (sfx_add, volume_adjust) of src/src/assets.py.                 *)
(***************************************************************************)
EXTENDS Integers, Sequences, FiniteSets, TLC

\* ------------------------------------------------------------------ bounds
MapW == 3
MapH == 2
MaxHp == 2
MaxRadius == 1
MaxTurns == 2
MaxCalls == 2
MaxVolume == 2
MaxLaterSfx == 1

\* the amounts spells are cast with: the smallest, and the one that fells or
\* fully heals any creature at once
Damages == {1, MaxHp}
HealValues == {1, MaxHp}
\* a confusion and the turns it lasts take one call more
MaxConfuseCalls == MaxCalls + 1

\* ------------------------------------------------------------- the actors
PLAYER == "PLAYER"
Creatures == {PLAYER, "orc", "rat"}
NoCreature == "None"
\* spells are cast by the player
Casters == {PLAYER}

Tiles == (0 .. MapW - 1) \X (0 .. MapH - 1)
\* what menu_tile_select returns when the player cancels with esc
NoTile == << >>
Selections == Tiles \cup {NoTile}

Abs(n) == IF n < 0 THEN -n ELSE n
Sign(n) == IF n < 0 THEN -1 ELSE IF n > 0 THEN 1 ELSE 0
Max(a, b) == IF a > b THEN a ELSE b
Min(a, b) == IF a < b THEN a ELSE b

\* Python truthiness of the value menu_tile_select returned
Truthy(t) == Len(t) > 0

\* creature stats: the rat is felled by any hit, the others have MaxHp
max_hp(c) == IF c = "rat" THEN 1 ELSE MaxHp

\* the base (non-wrapper) ai component of an actor; the player has none
BaseAi(c) ==
    IF c = PLAYER THEN << >>
    ELSE << [kind |-> "AiChase", num_turns |-> 0, owner |-> c] >>

VARIABLES
    pos,    \* pos[c] = (x, y) of actor c
    hp,     \* hp[c] = c.creature.current_hp
    ai,     \* ai[c] = c.ai: << >> is None, otherwise the head is the ai
            \* object and the tail is what its original_ai refers to
    conf,   \* conf[c]: the last cast_confusion on c and the turns c took since
    calls,  \* the number of calls made so far
    last,   \* the last call: its name, return value, the game messages it
            \* emitted and the heal / take_damage calls it made
    FOV_CALCULATE,  \* globalvars.FOV_CALCULATE: the field of view is stale
    raised, \* the uncaught fault that ended the program, NoFault while it runs
    sfx_list,       \* ObjAssets.sfx_list: the sounds in it, in order
    sounds,         \* every pygame Sound that sfx_add loaded: its file
                    \* and its volume; a Sound is known by its index here
    music_volume,   \* the volume of pygame.mixer.music
    PREFERENCES     \* globalvars.PREFERENCES: the two volume settings

vars == << pos, hp, ai, conf, calls, last, FOV_CALCULATE, raised,
           sfx_list, sounds, music_volume, PREFERENCES >>

\* the state of the actors and the state of the audio
floor == << pos, hp, ai, conf, FOV_CALCULATE, raised >>
audio == << sfx_list, sounds, music_volume, PREFERENCES >>

NoFault == "None"

\* ------------------------------------------------------------ game messages
COLOR_WHITE == "COLOR_WHITE"
COLOR_BLUE == "COLOR_BLUE"
COLOR_GREEN == "COLOR_GREEN"

Msg(text, who, whom, n, color) ==
    [text |-> text, who |-> who, whom |-> whom, n |-> n, color |-> color]

FullHpMsg(target) == Msg("is already at full health!", target, NoCreature, 0, COLOR_BLUE)
AimAwayMsg == Msg("Watch out! Aim away from yourself please.", NoCreature, NoCreature, 0, COLOR_WHITE)
CastsLighteningMsg(caster) == Msg("casts lightening", caster, NoCreature, 0, COLOR_WHITE)
CastsFireballMsg(caster) == Msg("casts fireball", caster, NoCreature, 0, COLOR_WHITE)
NothingHitMsg == Msg("Nothing was hit, what a waste.", NoCreature, NoCreature, 0, COLOR_WHITE)
CastsConfusionMsg(caster, target) == Msg("casts confusion on", caster, target, 0, COLOR_WHITE)
IsConfusedMsg(target, n) == Msg("is confused for turns!", target, NoCreature, n, COLOR_GREEN)

NoCalls == [c \in Creatures |-> 0]

Call(op, ret, msgs, hits, heals) ==
    [op |-> op, ret |-> ret, msgs |-> msgs, hits |-> hits, heals |-> heals]

\* what a call leaves behind: every current_hp, every ai, the confusions on
\* record, and the call's own return value and messages
Outcome(h, a, cf, call) == [hp |-> h, ai |-> a, conf |-> cf, call |-> call]


\* --------------------------------------------------------------- map queries
\* the k-th tile (k = 0 is the origin) of the straight line from (x1, y1) to
\* (x2, y2): one step along the longer axis per tile, the other axis rounded
LinePoint(x1, y1, x2, y2, k) ==
    LET adx == Abs(x2 - x1)
        ady == Abs(y2 - y1)
        sx == Sign(x2 - x1)
        sy == Sign(y2 - y1)
    IN  IF adx >= ady
        THEN << x1 + k * sx,
                y1 + sy * (IF adx = 0 THEN 0 ELSE (2 * k * ady + adx) \div (2 * adx)) >>
        ELSE << x1 + sx * ((2 * k * adx + ady) \div (2 * ady)),
                y1 + k * sy >>

\* map.tiles_in_line: the ordered tiles from coords1 to coords2, both included
tiles_in_line(coords1, coords2) ==
    LET n == Max(Abs(coords2[1] - coords1[1]), Abs(coords2[2] - coords1[2]))
    IN  [k \in 1 .. n + 1 |->
            LinePoint(coords1[1], coords1[2], coords2[1], coords2[2], k - 1)]

\* every tile of the map, row by row
AllTilesSeq == [i \in 1 .. MapW * MapH |-> << (i - 1) % MapW, (i - 1) \div MapW >>]

InRadius(t, centre, radius) ==
    /\ Abs(t[1] - centre[1]) <= radius
    /\ Abs(t[2] - centre[2]) <= radius

\* map.tiles_in_radius: the tiles of the map within radius of coords
tiles_in_radius(coords, radius) ==
    SelectSeq(AllTilesSeq, LAMBDA t : InRadius(t, coords, radius))

\* map.creature_at_coords: the actor with a creature component on (x, y)
creature_at_coords(x, y) ==
    IF \E c \in Creatures : pos[c] = << x, y >>
    THEN CHOOSE c \in Creatures : pos[c] = << x, y >>
    ELSE NoCreature

\* -------------------------------------------------------- creature component
\* creature.take_damage: current health minus damage, clamped at zero
take_damage(h, c, damage) == [h EXCEPT ![c] = Max(0, @ - damage)]

\* creature.heal: current health plus value, never above max_hp
heal(h, c, value) == [h EXCEPT ![c] = Min(max_hp(c), @ + value)]

\* creature.move: one step of (dx, dy) unless the tile is off the map or taken
move(c, dx, dy) ==
    LET dest == << pos[c][1] + dx, pos[c][2] + dy >>
    IN  IF dest \in Tiles /\ creature_at_coords(dest[1], dest[2]) = NoCreature
        THEN [pos EXCEPT ![c] = dest]
        ELSE pos

\* ------------------------------------------------------------------ spells
\* a cast_heal that lets a target at full health through
NeedsHealAlways(target) == hp[target] <= max_hp(target)

\* the test of cast_heal: the target is below its max hp
NeedsHeal(target) == hp[target] < max_hp(target)

\* a cast_heal that adds the value to current_hp itself
HealTargetUnclamped(target, value) == [hp EXCEPT ![target] = @ + value]

\* the effect of cast_heal on a target that needs it
HealTarget(target, value) == heal(hp, target, value)

\* cast_heal(target, value)
cast_heal(target, value) ==
    IF NeedsHeal(target)
    THEN Outcome(HealTarget(target, value), ai, conf,
                 Call("cast_heal", TRUE, << >>, NoCalls, [NoCalls EXCEPT ![target] = 1]))
    ELSE Outcome(hp, ai, conf,
                 Call("cast_heal", FALSE, << FullHpMsg(target) >>, NoCalls, NoCalls))

\* a cast_lightening without the index test: the first tile is hit too
LighteningDamagesAll(target_creature, i) ==
    target_creature # NoCreature

\* a cast_lightening that skips one tile too many
LighteningDamagesLate(target_creature, i) ==
    target_creature # NoCreature /\ i > 1

\* the test of cast_lightening that decides whether the creature found on the
\* tile of index i of the line is damaged
LighteningDamages(target_creature, i) ==
    target_creature # NoCreature /\ i # 0

\* a test for an empty line instead of a single-tile one
AimedAtSelfEmptyLine(target_creature, tiles_affected) ==
    target_creature # NoCreature /\ Len(tiles_affected) = 0

\* the test of cast_lightening that stops the cast on a single-tile line
AimedAtSelf(target_creature, tiles_affected) ==
    target_creature # NoCreature /\ Len(tiles_affected) = 1

\* a hit that deals the damage twice over
DamageStepTwice(st, target_creature, damage) ==
    [hp |-> take_damage(st.hp, target_creature, 2 * damage),
     hits |-> [st.hits EXCEPT ![target_creature] = @ + 1],
     damaged_something |-> TRUE,
     returned |-> FALSE]

\* what both spells do to a creature they hit: take_damage(damage) on it,
\* and damaged_something set
DamageStep(st, target_creature, damage) ==
    [hp |-> take_damage(st.hp, target_creature, damage),
     hits |-> [st.hits EXCEPT ![target_creature] = @ + 1],
     damaged_something |-> TRUE,
     returned |-> FALSE]

\* spells that report a miss whatever happened
WasteMsgsAlways(damaged_something) == << NothingHitMsg >>

\* the message both spells end with when damaged_something is still False
WasteMsgs(damaged_something) ==
    IF ~damaged_something THEN << NothingHitMsg >> ELSE << >>

\* a cancelled spell that reports success
CancelledButTrue(op) == Call(op, TRUE, << >>, NoCalls, NoCalls)

\* the else branch of the three targeted spells: return False, nothing else
Cancelled(op) == Call(op, FALSE, << >>, NoCalls, NoCalls)

\* the for loop of cast_lightening from index i on; st carries current hp,
\* the take_damage calls made, damaged_something and whether the loop returned
RECURSIVE LighteningLoop(_, _, _, _)
LighteningLoop(tiles_affected, i, damage, st) ==
    IF i >= Len(tiles_affected)
    THEN st
    ELSE LET xy == tiles_affected[i + 1]
             target_creature == creature_at_coords(xy[1], xy[2])
             st1 == IF LighteningDamages(target_creature, i)
                    THEN DamageStep(st, target_creature, damage)
                    ELSE st
         IN  IF AimedAtSelf(target_creature, tiles_affected)
             THEN [st1 EXCEPT !.returned = TRUE]
             ELSE LighteningLoop(tiles_affected, i + 1, damage, st1)

LoopStart == [hp |-> hp, hits |-> NoCalls, damaged_something |-> FALSE, returned |-> FALSE]

\* the end of cast_lightening once its loop is over: the return inside the
\* loop, or the messages and return True after it
LighteningEnd(caster, st) ==
    Outcome(st.hp, ai, conf,
            IF st.returned
            THEN Call("cast_lightening", FALSE, << AimAwayMsg >>, st.hits, NoCalls)
            ELSE Call("cast_lightening", TRUE,
                      << CastsLighteningMsg(caster) >> \o WasteMsgs(st.damaged_something),
                      st.hits, NoCalls))

\* a line asked for from the selected tile back to the caster
tiles_affected_reversed(caster, selected_tile_address) ==
    tiles_in_line(selected_tile_address, pos[caster])

\* the line cast_lightening asks the map for: from (caster.x, caster.y) to
\* the selected tile
tiles_affected_of(caster, selected_tile_address) ==
    tiles_in_line(pos[caster], selected_tile_address)

\* cast_lightening(caster, (damage, max range)); selected_tile_address is
\* what menu_tile_select returned
cast_lightening(caster, damage, selected_tile_address) ==
    IF Truthy(selected_tile_address)
    THEN LET tiles_affected == tiles_affected_of(caster, selected_tile_address)
         IN  LighteningEnd(caster, LighteningLoop(tiles_affected, 0, damage, LoopStart))
    ELSE Outcome(hp, ai, conf, Cancelled("cast_lightening"))

\* a cast_fireball that spares the player the way cast_lightening spares
\* the first tile
FireballDamagesSparesPlayer(target_creature) ==
    target_creature # NoCreature /\ target_creature # PLAYER

\* the test of cast_fireball that decides whether the creature found on a tile
\* of the radius is damaged
FireballDamages(target_creature) ==
    target_creature # NoCreature

\* the for loop of cast_fireball from index i on
RECURSIVE FireballLoop(_, _, _, _)
FireballLoop(list_of_tiles_to_damage, i, damage, st) ==
    IF i >= Len(list_of_tiles_to_damage)
    THEN st
    ELSE LET xy == list_of_tiles_to_damage[i + 1]
             target_creature == creature_at_coords(xy[1], xy[2])
             st1 == IF FireballDamages(target_creature)
                    THEN DamageStep(st, target_creature, damage)
                    ELSE st
         IN  FireballLoop(list_of_tiles_to_damage, i + 1, damage, st1)

\* a cast_fireball that returns damaged_something
FireballEndFalseOnMiss(caster, st) ==
    Outcome(st.hp, ai, conf,
            Call("cast_fireball", st.damaged_something,
                 << CastsFireballMsg(caster) >> \o WasteMsgs(st.damaged_something),
                 st.hits, NoCalls))

\* the end of cast_fireball once its loop is over: its messages and return True
FireballEnd(caster, st) ==
    Outcome(st.hp, ai, conf,
            Call("cast_fireball", TRUE,
                 << CastsFireballMsg(caster) >> \o WasteMsgs(st.damaged_something),
                 st.hits, NoCalls))

\* cast_fireball(caster, (damage, max range, max radius))
cast_fireball(caster, damage, spell_radius, selected_tile_address) ==
    IF Truthy(selected_tile_address)
    THEN LET list_of_tiles_to_damage ==
                 tiles_in_radius(selected_tile_address, spell_radius)
         IN  FireballEnd(caster, FireballLoop(list_of_tiles_to_damage, 0, damage, LoopStart))
    ELSE Outcome(hp, ai, conf, Cancelled("cast_fireball"))

\* a wrapper built without the ai it replaces
AiConfuseForgetful(original_ai, num_turns, owner) ==
    << [kind |-> "AiConfuse", num_turns |-> num_turns, owner |-> owner] >>

\* a wrapper that lasts one turn more than asked
AiConfuseLonger(original_ai, num_turns, owner) ==
    << [kind |-> "AiConfuse", num_turns |-> num_turns + 1, owner |-> owner] >> \o original_ai

\* ai.AiConfuse(original_ai, num_turns) with its owner set
AiConfuse(original_ai, num_turns, owner) ==
    << [kind |-> "AiConfuse", num_turns |-> num_turns, owner |-> owner] >> \o original_ai

IsConfuse(a) == a # << >> /\ Head(a).kind = "AiConfuse"
original_ai(a) == Tail(a)

NoCast == [cast |-> FALSE, normal_ai |-> << >>, effect_length |-> 0, turns |-> 0]

\* cast_confusion(caster, effect_length)
cast_confusion(caster, effect_length, selected_tile_address) ==
    IF Truthy(selected_tile_address)
    THEN LET target_creature ==
                 creature_at_coords(selected_tile_address[1], selected_tile_address[2])
         IN  IF target_creature # NoCreature
             THEN LET normal_ai == ai[target_creature]
                  IN  Outcome(hp,
                              [ai EXCEPT ![target_creature] =
                                  AiConfuse(normal_ai, effect_length, target_creature)],
                              [conf EXCEPT ![target_creature] =
                                  [cast |-> TRUE, normal_ai |-> normal_ai,
                                   effect_length |-> effect_length, turns |-> 0]],
                              Call("cast_confusion", TRUE,
                                   << CastsConfusionMsg(caster, target_creature),
                                      IsConfusedMsg(target_creature, effect_length) >>,
                                   NoCalls, NoCalls))
             ELSE Outcome(hp, ai, conf,
                          Call("cast_confusion", TRUE, << >>, NoCalls, NoCalls))
    ELSE Outcome(hp, ai, conf, Cancelled("cast_confusion"))

\* a call of one of the spells: the state takes the call's outcome; no spell
\* moves an actor
Casts(outcome) ==
    /\ hp' = outcome.hp
    /\ ai' = outcome.ai
    /\ conf' = outcome.conf
    /\ last' = outcome.call
    /\ UNCHANGED << pos, FOV_CALCULATE, raised, audio >>

\* AiConfuse.take_turn of the wrapper that is the ai of actor c: a random
\* step (dx, dy), one turn less, and the original ai back after the last turn
take_turn(c, dx, dy) ==
    /\ IsConfuse(ai[c])
    /\ LET self == Head(ai[c])
           owner == self.owner
           left == self.num_turns - 1
       IN  /\ pos' = move(owner, dx, dy)
           /\ ai' = [ai EXCEPT ![owner] =
                        IF left <= 0
                        THEN original_ai(ai[c])
                        ELSE << [self EXCEPT !.num_turns = left] >> \o original_ai(ai[c])]
           /\ conf' = [conf EXCEPT ![owner] =
                        IF ~@.cast \/ @.turns >= @.effect_length
                        THEN NoCast
                        ELSE [@ EXCEPT !.turns = @ + 1]]
    /\ last' = Call("take_turn", FALSE, << >>, NoCalls, NoCalls)
    /\ UNCHANGED << hp, FOV_CALCULATE, raised, audio >>

\* ------------------------------------------------------- actions.py: moving
Directions == {"up", "down", "left", "right"}
\* arguments that are none of the four directions
OtherDirections == {"UP", "north", ""}
\* dx, dy when no branch of move_one_tile assigned them
Unbound == << >>

\* a move_one_tile whose if chain ends with an else that stays in place
DeltaOrStay(direction) ==
    IF direction = "up" THEN << 0, -1 >>
    ELSE IF direction = "down" THEN << 0, 1 >>
    ELSE IF direction = "left" THEN << -1, 0 >>
    ELSE IF direction = "right" THEN << 1, 0 >>
    ELSE << 0, 0 >>

\* the if / elif chain of move_one_tile: dx, dy after it
Delta(direction) ==
    IF direction = "up" THEN << 0, -1 >>
    ELSE IF direction = "down" THEN << 0, 1 >>
    ELSE IF direction = "left" THEN << -1, 0 >>
    ELSE IF direction = "right" THEN << 1, 0 >>
    ELSE Unbound

\* move_one_tile(direction): reading the unassigned dx raises
\* UnboundLocalError while the arguments of move are evaluated, before the
\* call of move and before the assignment to FOV_CALCULATE
move_one_tile(direction) ==
    LET d == Delta(direction)
    IN  IF d = Unbound
        THEN [pos |-> pos, FOV_CALCULATE |-> FOV_CALCULATE,
              raised |-> "UnboundLocalError"]
        ELSE [pos |-> move(PLAYER, d[1], d[2]), FOV_CALCULATE |-> TRUE,
              raised |-> NoFault]

\* a key press handled by move_one_tile
Moves ==
    \E direction \in Directions \cup OtherDirections :
        \E outcome \in {move_one_tile(direction)} :
            /\ pos' = outcome.pos
            /\ FOV_CALCULATE' = outcome.FOV_CALCULATE
            /\ raised' = outcome.raised
            /\ last' = Call("move_one_tile", FALSE, << >>, NoCalls, NoCalls)
            /\ UNCHANGED << hp, ai, conf, audio >>

\* the field of view recomputed by the draw loop when it is flagged stale
map_calculate_fov ==
    /\ FOV_CALCULATE
    /\ FOV_CALCULATE' = FALSE
    /\ last' = Call("map_calculate_fov", FALSE, << >>, NoCalls, NoCalls)
    /\ UNCHANGED << pos, hp, ai, conf, raised, audio >>

\* ---------------------------------------------------------- assets.py: audio
\* volumes are levels from 0 (silent) to MaxVolume (pygame's 1.0)
Volumes == 0 .. MaxVolume

AllPreferences == [sfx_volume_val : Volumes, music_volume_val : Volumes]
FullVolume == [sfx_volume_val |-> MaxVolume, music_volume_val |-> MaxVolume]

\* the files ObjAssets.__init__ loads, in the order of its sfx_add calls
SfxFiles ==
    << "hit_punch_1.wav", "hit_punch_2.wav", "hit_punch_3.wav",
       "hit_punch_4.wav", "hit_punch_5.wav", "click3.wav", "rollover1.wav",
       "coin_pickup.wav", "soul_consume.wav", "pure_soul_consume.wav",
       "item_pickup.wav", "glassbell_levelup.wav" >>

\* files for sfx_add calls made after construction
LaterFiles == {"click3.wav", "door_open.wav"}

\* pygame.mixer.Sound(file): a new sound, at full volume
Sound(file_name) == [file |-> file_name, volume |-> MaxVolume]

\* sfx_add(file_name): load the sound, append it to sfx_list, return it
sfx_add(list, snds, file_name) ==
    [sfx_list |-> Append(list, Len(snds) + 1),
     sounds |-> Append(snds, Sound(file_name)),
     ret |-> Len(snds) + 1]

\* the for loop of volume_adjust from the i-th entry of sfx_list on
RECURSIVE VolumeLoop(_, _, _, _)
VolumeLoop(list, i, snds, val) ==
    IF i > Len(list)
    THEN snds
    ELSE VolumeLoop(list, i + 1, [snds EXCEPT ![list[i]].volume = val], val)

\* a volume_adjust with the two settings the wrong way round
volume_adjust_swapped(list, snds, prefs) ==
    [sounds |-> VolumeLoop(list, 1, snds, prefs.music_volume_val),
     music_volume |-> prefs.sfx_volume_val]

\* volume_adjust(): set_volume(sfx_volume_val) on every entry of sfx_list,
\* then set_volume(music_volume_val) on the music
volume_adjust(list, snds, prefs) ==
    [sounds |-> VolumeLoop(list, 1, snds, prefs.sfx_volume_val),
     music_volume |-> prefs.music_volume_val]

\* the sfx_add calls of ObjAssets.__init__ from the i-th file on
RECURSIVE LoadAll(_, _)
LoadAll(i, st) ==
    IF i > Len(SfxFiles)
    THEN st
    ELSE LoadAll(i + 1, sfx_add(st.sfx_list, st.sounds, SfxFiles[i]))

\* the audio part of ObjAssets.__init__: sfx_list = [], the sfx_add calls,
\* and volume_adjust() at the end
ObjAssets(prefs) ==
    LET loaded == LoadAll(1, [sfx_list |-> << >>, sounds |-> << >>, ret |-> 0])
        adjusted == volume_adjust(loaded.sfx_list, loaded.sounds, prefs)
    IN  [sfx_list |-> loaded.sfx_list,
         sounds |-> adjusted.sounds,
         music_volume |-> adjusted.music_volume]

\* the audio as ObjAssets() leaves it under the settings prefs
Constructed(prefs) ==
    \E assets \in {ObjAssets(prefs)} :
        /\ PREFERENCES = prefs
        /\ sfx_list = assets.sfx_list
        /\ sounds = assets.sounds
        /\ music_volume = assets.music_volume

\* a sound loaded after construction
SfxAdds ==
    /\ Len(sounds) < Len(SfxFiles) + MaxLaterSfx
    /\ \E file_name \in LaterFiles :
          \E outcome \in {sfx_add(sfx_list, sounds, file_name)} :
              /\ sfx_list' = outcome.sfx_list
              /\ sounds' = outcome.sounds
    /\ last' = Call("sfx_add", FALSE, << >>, NoCalls, NoCalls)
    /\ UNCHANGED << music_volume, PREFERENCES >>

\* a call of volume_adjust
VolumeAdjusts ==
    /\ \E outcome \in {volume_adjust(sfx_list, sounds, PREFERENCES)} :
          /\ sounds' = outcome.sounds
          /\ music_volume' = outcome.music_volume
    /\ last' = Call("volume_adjust", FALSE, << >>, NoCalls, NoCalls)
    /\ UNCHANGED << sfx_list, PREFERENCES >>

\* the player moves a volume slider of the options menu
SetsPreferences ==
    /\ \E prefs \in AllPreferences :
          /\ prefs # PREFERENCES
          /\ PREFERENCES' = prefs
    /\ last' = Call("set_preferences", FALSE, << >>, NoCalls, NoCalls)
    /\ UNCHANGED << sfx_list, sounds, music_volume >>

\* the shape of the state: every actor on a tile of the map, its current hp
\* a natural number, its ai a chain of AiConfuse wrappers over its base ai
TypeOK ==
    /\ pos \in [Creatures -> Tiles]
    /\ hp \in [Creatures -> Nat]
    /\ \A c \in Creatures :
          /\ \A i \in 1 .. Len(ai[c]) : ai[c][i].owner = c
          /\ \E k \in 0 .. Len(ai[c]) :
                /\ \A i \in 1 .. k : ai[c][i].kind = "AiConfuse" /\ ai[c][i].num_turns > 0
                /\ SubSeq(ai[c], k + 1, Len(ai[c])) = BaseAi(c)
          /\ conf[c].turns <= conf[c].effect_length
    /\ calls \in Nat
    /\ last.ret \in BOOLEAN
    /\ FOV_CALCULATE \in BOOLEAN
    /\ raised \in {NoFault, "UnboundLocalError"}
    /\ PREFERENCES \in AllPreferences
    /\ music_volume \in Volumes
    /\ \A i \in DOMAIN sounds : sounds[i].volume \in Volumes
    /\ \A i \in DOMAIN sfx_list : sfx_list[i] \in DOMAIN sounds

\* ----------------------------------------------------------- specifications
\* the monsters of the floor stand on two tiles of the first row; the player
\* starts on any other tile
Placements == {p \in [Creatures -> Tiles] :
                 /\ p["orc"] = << 1, 0 >>
                 /\ p["rat"] = << 2, 0 >>
                 /\ \A c, d \in Creatures : c # d => p[c] # p[d]}

Init ==
    /\ pos \in Placements
    /\ hp = [c \in Creatures |-> max_hp(c)]
    /\ ai = [c \in Creatures |-> BaseAi(c)]
    /\ conf = [c \in Creatures |-> NoCast]
    /\ calls = 0
    /\ last = Call("none", FALSE, << >>, NoCalls, NoCalls)
    /\ FOV_CALCULATE = FALSE
    /\ raised = NoFault
    /\ Constructed(FullVolume)

Steps == {-1, 0, 1}

Heals ==
    \E target \in Creatures, value \in HealValues :
        \E outcome \in {cast_heal(target, value)} : Casts(outcome)

Lightenings ==
    \E caster \in Casters, damage \in Damages, sel \in Selections :
        \E outcome \in {cast_lightening(caster, damage, sel)} : Casts(outcome)

Fireballs ==
    \E caster \in Casters, damage \in Damages,
       radius \in 0 .. MaxRadius, sel \in Selections :
        \E outcome \in {cast_fireball(caster, damage, radius, sel)} : Casts(outcome)

Confusions ==
    \E caster \in Casters, n \in 1 .. MaxTurns, sel \in Selections :
        \E outcome \in {cast_confusion(caster, n, sel)} : Casts(outcome)

Turns ==
    \E c \in Creatures, dx \in Steps, dy \in Steps : take_turn(c, dx, dy)

\* one more call of a session of at most limit calls
Counted(limit) == calls < limit /\ calls' = calls + 1

\* any of the calls, in any order
Next ==
    \/ Counted(MaxCalls) /\ Heals
    \/ Counted(MaxCalls) /\ Lightenings
    \/ Counted(MaxCalls) /\ Fireballs
    \/ Counted(MaxCalls) /\ Confusions
    \/ Counted(MaxCalls) /\ Turns

Spec == Init /\ [][Next]_vars

\* the healing and damaging spells alone, any number of them
NextSpells ==
    \/ Heals /\ UNCHANGED calls
    \/ Lightenings /\ UNCHANGED calls
    \/ Fireballs /\ UNCHANGED calls

SpecSpells == Init /\ [][NextSpells]_vars

\* confusion and the turns of the confused
NextConfuse ==
    \/ Counted(MaxConfuseCalls) /\ Confusions
    \/ Counted(MaxConfuseCalls) /\ Turns

SpecConfuse == Init /\ [][NextConfuse]_vars

\* the player's turns: a step, a lightning or a heal, until a fault ends the
\* program
NextPlayer ==
    \/ raised = NoFault /\ Moves /\ UNCHANGED calls
    \/ raised = NoFault /\ map_calculate_fov /\ UNCHANGED calls
    \/ raised = NoFault /\ Lightenings /\ UNCHANGED calls
    \/ raised = NoFault /\ Heals /\ UNCHANGED calls

SpecPlayer == Init /\ [][NextPlayer]_vars

\* the game right after ObjAssets() was constructed, under any settings
InitAssets ==
    /\ pos = [c \in Creatures |->
                 IF c = "orc" THEN << 1, 0 >>
                 ELSE IF c = "rat" THEN << 2, 0 >> ELSE << 0, 0 >>]
    /\ hp = [c \in Creatures |-> max_hp(c)]
    /\ ai = [c \in Creatures |-> BaseAi(c)]
    /\ conf = [c \in Creatures |-> NoCast]
    /\ calls = 0
    /\ last = Call("ObjAssets", FALSE, << >>, NoCalls, NoCalls)
    /\ FOV_CALCULATE = FALSE
    /\ raised = NoFault
    /\ \E prefs \in AllPreferences : Constructed(prefs)

\* the audio calls and the changes of the settings, in any order
NextAssets ==
    \/ SfxAdds /\ UNCHANGED << floor, calls >>
    \/ VolumeAdjusts /\ UNCHANGED << floor, calls >>
    \/ SetsPreferences /\ UNCHANGED << floor, calls >>

SpecAssets == InitAssets /\ [][NextAssets]_vars

\* -------------------------------------------------------------- properties
Range(f) == {f[i] : i \in DOMAIN f}
CreatureOn(t) == creature_at_coords(t[1], t[2])
LineOf(caster, sel) == tiles_in_line(pos[caster], sel)
Spells == {"cast_lightening", "cast_fireball"}

\* C1: cast_lightening makes no take_damage call on the creature found on the
\* first tile of the line, and the caster's current hp is the same after the
\* cast as before, whatever tile was selected.
C1_FirstTileSpared ==
    \A caster \in Casters, damage \in Damages, sel \in Tiles :
        \A outcome \in {cast_lightening(caster, damage, sel)} :
            LET first == CreatureOn(LineOf(caster, sel)[1])
            IN  /\ first # NoCreature => outcome.call.hits[first] = 0
                /\ outcome.hp[caster] = hp[caster]

\* a lightning that hit a monster and left the caster, on the first tile of
\* its line, unhurt
C1_Witness ==
    /\ last.op = "cast_lightening"
    /\ last.ret
    /\ \E c \in Creatures : last.hits[c] = 1 /\ hp[c] < max_hp(c)
    /\ last.hits[PLAYER] = 0
    /\ hp[PLAYER] = max_hp(PLAYER)

\* C2: with a tile selected and a line of more than one tile, cast_lightening
\* calls take_damage exactly once on every creature standing on a tile of the
\* line other than the first, and on no other creature.
C2_LineDamagedOnce ==
    \A caster \in Casters, damage \in Damages, sel \in Tiles :
        Len(LineOf(caster, sel)) > 1 =>
            \A outcome \in {cast_lightening(caster, damage, sel)} :
                \A c \in Creatures :
                    outcome.call.hits[c] =
                        IF \E i \in 2 .. Len(LineOf(caster, sel)) :
                               LineOf(caster, sel)[i] = pos[c]
                        THEN 1 ELSE 0

\* a lightning through both monsters: each was hit once, the caster not
C2_Witness ==
    /\ last.op = "cast_lightening"
    /\ last.hits["orc"] = 1
    /\ last.hits["rat"] = 1
    /\ last.hits[PLAYER] = 0

\* C3: with a tile selected, cast_fireball calls take_damage exactly once on
\* every creature within spell_radius of the selected tile, the caster
\* included, and on no creature outside the radius.
C3_RadiusDamagedOnce ==
    \A caster \in Casters, damage \in Damages,
       radius \in 0 .. MaxRadius, sel \in Tiles :
        \A outcome \in {cast_fireball(caster, damage, radius, sel)} :
            \A c \in Creatures :
                outcome.call.hits[c] = IF InRadius(pos[c], sel, radius) THEN 1 ELSE 0

\* a fireball that caught its caster and a monster and missed the other monster
C3_Witness ==
    /\ last.op = "cast_fireball"
    /\ last.hits[PLAYER] = 1
    /\ last.hits["orc"] = 1
    /\ last.hits["rat"] = 0

\* C4: a lightning or fireball cast emits "Nothing was hit, what a waste."
\* if and only if it returned True and made no take_damage call.
C4_WasteIffNothingHit ==
    last.op \in Spells =>
        (NothingHitMsg \in Range(last.msgs)
            <=> (last.ret /\ \A c \in Creatures : last.hits[c] = 0))

\* a resolved lightning that met no creature beyond the caster's tile
C4_Witness ==
    /\ last.op = "cast_lightening"
    /\ last.ret
    /\ last.hits = NoCalls
    /\ last.msgs = << CastsLighteningMsg(PLAYER), NothingHitMsg >>

\* C5: a cast_confusion on a tile with a creature leaves that creature with
\* an AiConfuse whose original_ai is the ai it had before the cast, whose
\* num_turns is effect_length and whose owner is the creature; every other
\* creature keeps its ai.
C5_ConfusionWraps ==
    \A caster \in Casters, n \in 1 .. MaxTurns, sel \in Tiles :
        CreatureOn(sel) # NoCreature =>
            \A outcome \in {cast_confusion(caster, n, sel)} :
                LET target == CreatureOn(sel)
                IN  /\ IsConfuse(outcome.ai[target])
                    /\ original_ai(outcome.ai[target]) = ai[target]
                    /\ Head(outcome.ai[target]).num_turns = n
                    /\ Head(outcome.ai[target]).owner = target
                    /\ \A c \in Creatures \ {target} : outcome.ai[c] = ai[c]

\* a confused monster confused again: the new wrapper wraps the old one
C5_Witness ==
    /\ last.op = "cast_confusion"
    /\ last.ret
    /\ \E c \in Creatures \ {PLAYER} :
          /\ Len(ai[c]) = 3
          /\ IsConfuse(ai[c])
          /\ IsConfuse(original_ai(ai[c]))
          /\ conf[c].normal_ai = original_ai(ai[c])

\* C6: a creature that took effect_length turns since cast_confusion confused
\* it has the ai it had before that cast.
C6_ConfusionEnds ==
    \A c \in Creatures :
        (conf[c].cast /\ conf[c].turns = conf[c].effect_length) =>
            ai[c] = conf[c].normal_ai

\* a monster confused for MaxTurns turns that took them and chases again
C6_Witness ==
    \E c \in Creatures \ {PLAYER} :
        /\ conf[c].cast
        /\ conf[c].effect_length = MaxTurns
        /\ conf[c].turns = MaxTurns
        /\ ai[c] = BaseAi(c)
        /\ last.op = "take_turn"

\* C7: whatever heals, lightnings and fireballs were cast, no creature's
\* current_hp is above its max_hp.
C7_HpAtMostMax ==
    \A c \in Creatures : hp[c] <= max_hp(c)

\* a heal that brought a hurt creature to full health
C7_Witness ==
    /\ last.op = "cast_heal"
    /\ last.ret
    /\ \E c \in Creatures : last.heals[c] = 1 /\ hp[c] = max_hp(c)

\* every creature the outcome's call hit has the larger of zero and its
\* current_hp before the call minus the damage
HitsClamped(outcome, damage) ==
    \A c \in Creatures :
        outcome.call.hits[c] > 0 =>
            /\ outcome.hp[c] = Max(0, hp[c] - damage)
            /\ outcome.hp[c] >= 0

\* C8: every creature a lightning or fireball hit has afterwards the larger
\* of zero and its previous current_hp minus the damage.
C8_DamageClamped ==
    /\ \A caster \in Casters, damage \in Damages, sel \in Tiles :
          \A outcome \in {cast_lightening(caster, damage, sel)} :
              HitsClamped(outcome, damage)
    /\ \A caster \in Casters, damage \in Damages,
          radius \in 0 .. MaxRadius, sel \in Tiles :
          \A outcome \in {cast_fireball(caster, damage, radius, sel)} :
              HitsClamped(outcome, damage)

\* one spell hit both monsters: one is left with health, the other with none
C8_Witness ==
    /\ last.op \in Spells
    /\ last.hits["orc"] = 1
    /\ last.hits["rat"] = 1
    /\ \E c \in {"orc", "rat"} : hp[c] = 0
    /\ \E c \in {"orc", "rat"} : hp[c] > 0

\* C9: cast_heal returns True, and calls heal, exactly when the target is
\* below max_hp at the call; at max_hp it returns False, emits the full
\* health message and leaves every hp as it was.
C9_HealOnlyWhenHurt ==
    \A target \in Creatures, value \in HealValues :
        \A outcome \in {cast_heal(target, value)} :
            /\ outcome.call.ret <=> hp[target] < max_hp(target)
            /\ outcome.call.heals[target] = 1 <=> hp[target] < max_hp(target)
            /\ hp[target] = max_hp(target) =>
                  /\ ~outcome.call.ret
                  /\ outcome.call.msgs = << FullHpMsg(target) >>
                  /\ outcome.call.heals = NoCalls
                  /\ outcome.hp = hp

\* a heal refused because the target was at full health, while another
\* creature was hurt
C9_Witness ==
    /\ last.op = "cast_heal"
    /\ ~last.ret
    /\ \E c \in Creatures : last.msgs = << FullHpMsg(c) >> /\ hp[c] = max_hp(c)
    /\ \E c \in Creatures : hp[c] < max_hp(c)

\* what a cancelled spell leaves behind: False returned, no message, no
\* take_damage call, and every hp and ai as before
NothingChanged(outcome) ==
    /\ ~outcome.call.ret
    /\ outcome.call.msgs = << >>
    /\ outcome.call.hits = NoCalls
    /\ outcome.hp = hp
    /\ outcome.ai = ai

\* C10: when the tile selection is cancelled, cast_lightening, cast_fireball
\* and cast_confusion return False, emit no message and change no creature.
C10_CancelChangesNothing ==
    /\ \A caster \in Casters, damage \in Damages :
          NothingChanged(cast_lightening(caster, damage, NoTile))
    /\ \A caster \in Casters, damage \in Damages, radius \in 0 .. MaxRadius :
          NothingChanged(cast_fireball(caster, damage, radius, NoTile))
    /\ \A caster \in Casters, n \in 1 .. MaxTurns :
          NothingChanged(cast_confusion(caster, n, NoTile))

\* a cancelled fireball in a session that had already hurt or confused someone
C10_Witness ==
    /\ last.op = "cast_fireball"
    /\ ~last.ret
    /\ \/ \E c \in Creatures : hp[c] < max_hp(c)
       \/ \E c \in Creatures : IsConfuse(ai[c])

\* C11: a cast_confusion call returns True exactly when it replaced the ai of
\* a creature by a confusion wrapper over that ai, and False when it confused
\* no creature.
C11_TrueIffConfused ==
    [][last'.op = "cast_confusion" /\ calls' # calls =>
          (last'.ret <=> \E c \in Creatures :
                             /\ ai'[c] # ai[c]
                             /\ IsConfuse(ai'[c])
                             /\ original_ai(ai'[c]) = ai[c])]_vars

\* two tiles that touch by a side or a corner
Adjacent(t, u) ==
    /\ t # u
    /\ Abs(t[1] - u[1]) <= 1
    /\ Abs(t[2] - u[2]) <= 1

\* C12: for every caster position and selected tile, the line cast_lightening
\* walks starts on the caster's tile, ends on the selected tile and goes from
\* each tile to an adjacent one; the tile of index 0, the one the loop skips,
\* is the only tile of the line the caster stands on.
C12_LineFromCasterToTarget ==
    \A caster \in Casters, sel \in Tiles :
        \A line \in {tiles_affected_of(caster, sel)} :
            /\ Len(line) >= 1
            /\ line[1] = pos[caster]
            /\ line[Len(line)] = sel
            /\ \A i \in 1 .. Len(line) - 1 : Adjacent(line[i], line[i + 1])
            /\ \A i \in 1 .. Len(line) : line[i] = pos[caster] <=> i = 1

\* a lightning cast from the second row along a slanted line of three tiles
\* that ended on the rat
C12_Witness ==
    /\ last.op = "cast_lightening"
    /\ last.ret
    /\ pos[PLAYER] = << 0, 1 >>
    /\ last.hits["rat"] = 1
    /\ hp["rat"] = 0

\* C13: when the selected tile is the caster's own tile, cast_lightening
\* returns False, emits the aim-away warning and no other message (neither
\* "casts lightening" nor "Nothing was hit"), and damages no creature.
C13_AimedAtOwnTile ==
    \A caster \in Casters, damage \in Damages :
        \A outcome \in {cast_lightening(caster, damage, pos[caster])} :
            /\ ~outcome.call.ret
            /\ outcome.call.msgs = << AimAwayMsg >>
            /\ CastsLighteningMsg(caster) \notin Range(outcome.call.msgs)
            /\ NothingHitMsg \notin Range(outcome.call.msgs)
            /\ outcome.call.hits = NoCalls
            /\ outcome.hp = hp

\* a lightning aimed at the caster's own tile after an earlier spell had hurt
\* a creature
C13_Witness ==
    /\ last.op = "cast_lightening"
    /\ ~last.ret
    /\ last.msgs = << AimAwayMsg >>
    /\ last.hits = NoCalls
    /\ \E c \in Creatures : hp[c] < max_hp(c)

\* the "casts ..." messages among msgs
CastsMsgs(msgs) ==
    {i \in DOMAIN msgs :
        msgs[i].text \in {"casts lightening", "casts fireball", "casts confusion on"}}

\* msgs holds exactly one "casts ..." message, and it is m
OneCastsMsg(msgs, m) ==
    /\ Cardinality(CastsMsgs(msgs)) = 1
    /\ \A i \in CastsMsgs(msgs) : msgs[i] = m

\* C14: cast_fireball returns True exactly when a tile was selected, and
\* cast_lightening exactly when a tile was selected and the line has more
\* than one tile, whether or not a creature was hit; a cast that returns
\* True has emitted exactly one "casts ..." message, naming the caster.
C14_TrueWhenResolved ==
    /\ \A caster \in Casters, damage \in Damages, sel \in Selections :
          \A outcome \in {cast_lightening(caster, damage, sel)} :
              /\ outcome.call.ret <=>
                    (Truthy(sel) /\ Len(tiles_affected_of(caster, sel)) > 1)
              /\ outcome.call.ret =>
                    OneCastsMsg(outcome.call.msgs, CastsLighteningMsg(caster))
    /\ \A caster \in Casters, damage \in Damages,
          radius \in 0 .. MaxRadius, sel \in Selections :
          \A outcome \in {cast_fireball(caster, damage, radius, sel)} :
              /\ outcome.call.ret <=> Truthy(sel)
              /\ outcome.call.ret =>
                    OneCastsMsg(outcome.call.msgs, CastsFireballMsg(caster))

\* a fireball on a tile with nobody in its radius: it returned True with its
\* "casts fireball" message and the report that nothing was hit
C14_Witness ==
    /\ last.op = "cast_fireball"
    /\ last.ret
    /\ last.hits = NoCalls
    /\ last.msgs = << CastsFireballMsg(PLAYER), NothingHitMsg >>

\* C15: move_one_tile with a direction other than "up", "down", "left" and
\* "right" raises an uncaught fault and has no effect: no actor is moved and
\* FOV_CALCULATE is what it was.
C15_BadDirectionRaises ==
    \A direction \in OtherDirections :
        \A outcome \in {move_one_tile(direction)} :
            /\ outcome.raised # NoFault
            /\ outcome.pos = pos
            /\ outcome.FOV_CALCULATE = FOV_CALCULATE

\* the program ended by a bad direction after the player had stepped to
\* another tile and the field of view had been recomputed
C15_Witness ==
    /\ raised = "UnboundLocalError"
    /\ last.op = "move_one_tile"
    /\ ~FOV_CALCULATE
    /\ pos[PLAYER] = << 0, 0 >>
    /\ \E c \in Creatures : hp[c] < max_hp(c)

\* every loaded sound has the sfx setting as its volume and the music has
\* the music setting
VolumesFollowSettings ==
    /\ \A i \in DOMAIN sounds : sounds[i].volume = PREFERENCES.sfx_volume_val
    /\ music_volume = PREFERENCES.music_volume_val

\* C16: every sound sfx_add ever loaded is in sfx_list, once; a sfx_add call
\* appends one entry and keeps the others; right after volume_adjust every
\* loaded sound has volume sfx_volume_val and the music has volume
\* music_volume_val; and right after the construction of ObjAssets this
\* holds with the twelve sounds of __init__ loaded.
C16_VolumesAdjusted ==
    /\ Len(sfx_list) = Len(sounds)
    /\ \A i \in DOMAIN sounds : \E j \in DOMAIN sfx_list : sfx_list[j] = i
    /\ \A file_name \in LaterFiles :
          \A outcome \in {sfx_add(sfx_list, sounds, file_name)} :
              /\ outcome.sfx_list = Append(sfx_list, outcome.ret)
              /\ outcome.ret \notin Range(sfx_list)
              /\ outcome.sounds[outcome.ret].file = file_name
    /\ last.op \in {"ObjAssets", "volume_adjust"} => VolumesFollowSettings
    /\ last.op = "ObjAssets" =>
          /\ Len(sfx_list) = 12
          /\ \A i \in 1 .. 12 : sounds[sfx_list[i]].file = SfxFiles[i]

\* a volume_adjust after the settings were changed and a thirteenth sound
\* was loaded: all thirteen play at the new setting, which is neither the
\* volume a new sound has nor silence, and the music at another
C16_Witness ==
    /\ last.op = "volume_adjust"
    /\ Len(sfx_list) = 13
    /\ PREFERENCES.sfx_volume_val = 1
    /\ PREFERENCES.music_volume_val = 0
    /\ \A i \in DOMAIN sounds : sounds[i].volume = 1
    /\ music_volume = 0

====
